---- MODULE Spec2Model ----
(***************************************************************************)
(* The EDR event generator: the TaskCommander (commander.rs) that reads    *)
(* one CSV record per read_next call and routes it to the process manager  *)
(* (process.rs), the file operations (file_system.rs), the network channel *)
(* (network.rs) or a pause, and the Logger (logger.rs) every outcome goes  *)
(* to.  Spec drives a TaskCommander over an input file and SpecSession     *)
(* also disposes of it; SpecPM drives a ProcessManager directly, as its    *)
(* unit tests do; SpecNet runs one network call with its acceptor thread;  *)
(* SpecFS runs the file operations.  SpecSessionFair and SpecNetFair add   *)
(* the progress of the running threads.                                    *)
(***************************************************************************)
EXTENDS Integers, Sequences, FiniteSets, TLC

\* ---------------------------------------------------------------- bounds
\* Longest input file, in records.
MaxRows == 2
\* read_next calls made after the first one that returned false.
MaxEofCalls == 2
\* new_process calls of one ProcessManager under SpecPM.
MaxSpawns == 3
\* stop_all calls of one ProcessManager under SpecPM.
MaxStopCalls == 2
\* The longest payload of a network call.
MaxPayload == 2
\* The most connections that fail to be accepted.
MaxAcceptErrs == 1
\* The most calls made on the file actor.
MaxFileOps == 3

\* ------------------------------------------------------- field contents
\* The characters of the field texts the inputs use (a field is a string;
\* the numeric parsers below work on its characters).
Chars(s) ==
  CASE s = ""      -> <<>>
    [] s = "0"     -> <<"0">>
    [] s = "5"     -> <<"5">>
    [] s = "80"    -> <<"8", "0">>
    [] s = "65536" -> <<"6", "5", "5", "3", "6">>
    [] s = "x"     -> <<"x">>
    [] OTHER       -> <<"?">>

Digits == {"0", "1", "2", "3", "4", "5", "6", "7", "8", "9"}

DigitVal(c) ==
  CASE c = "0" -> 0 [] c = "1" -> 1 [] c = "2" -> 2 [] c = "3" -> 3
    [] c = "4" -> 4 [] c = "5" -> 5 [] c = "6" -> 6 [] c = "7" -> 7
    [] c = "8" -> 8 [] c = "9" -> 9

\* The decimal digits of u16::MAX, 65535.
U16MaxDigits == <<"6", "5", "5", "3", "5">>
\* The decimal digits of u64::MAX, 18446744073709551615.
U64MaxDigits ==
  <<"1","8","4","4","6","7","4","4","0","7","3","7","0","9","5","5","1","6","1","5">>

RECURSIVE StripZeros(_)
StripZeros(ds) ==
  IF Len(ds) > 1 /\ Head(ds) = "0" THEN StripZeros(Tail(ds)) ELSE ds

\* a <= b for two digit sequences without leading zeros.
RECURSIVE LexLeq(_, _)
LexLeq(a, b) ==
  IF a = <<>> THEN TRUE
  ELSE IF DigitVal(Head(a)) # DigitVal(Head(b))
       THEN DigitVal(Head(a)) < DigitVal(Head(b))
       ELSE LexLeq(Tail(a), Tail(b))

DigitsLeq(a, b) ==
  \/ Len(a) < Len(b)
  \/ Len(a) = Len(b) /\ LexLeq(a, b)

\* str::parse for an unsigned integer type: empty text, a lone sign, a
\* '-' or any non-digit is an error, a leading '+' is accepted, a value
\* above the type's maximum overflows.  The result is the value's decimal
\* digits (no leading zeros), or <<>> for Err.
ParseUnsigned(s, maxDigits) ==
  LET cs   == Chars(s)
      body == IF Len(cs) > 1 /\ Head(cs) = "+" THEN Tail(cs) ELSE cs
      ds   == StripZeros(body)
  IN  IF body = <<>> THEN <<>>
      ELSE IF \E i \in 1..Len(body) : body[i] \notin Digits THEN <<>>
      ELSE IF DigitsLeq(ds, maxDigits) THEN ds
      ELSE <<>>

RECURSIVE DigitsValue(_)
DigitsValue(ds) ==
  IF ds = <<>> THEN 0
  ELSE 10 * DigitsValue(SubSeq(ds, 1, Len(ds) - 1)) + DigitVal(ds[Len(ds)])

\* params[2].parse::<u16>(): the port, or -1 for Err.
ParseU16(s) ==
  LET ds == ParseUnsigned(s, U16MaxDigits)
  IN  IF ds = <<>> THEN -1 ELSE DigitsValue(ds)

\* params[1].parse::<u64>(): the delay's digits, or <<>> for Err.
ParseU64(s) == ParseUnsigned(s, U64MaxDigits)

\* ------------------------------------------------------------- the input
\* What the csv reader yields for one record: Ok(StringRecord) or Err (a
\* record that is not valid UTF-8, an I/O error).
OkRow(rec) == [ok |-> TRUE, rec |-> rec]
ErrRow == [ok |-> FALSE, rec |-> <<>>]

RowSet ==
  { OkRow(<<"process">>), OkRow(<<"process", "sh">>), OkRow(<<"process", "sh", "-c">>),
    OkRow(<<"pause">>), OkRow(<<"pause", "5">>), OkRow(<<"pause", "x">>),
    OkRow(<<"new_file">>), OkRow(<<"new_file", "f">>),
    OkRow(<<"mod_file", "f">>), OkRow(<<"delete_file", "f">>),
    OkRow(<<"connect", "h", "80">>), OkRow(<<"connect", "h", "80", "m">>),
    OkRow(<<"connect", "h", "0", "m">>), OkRow(<<"connect", "h", "65536", "m">>),
    OkRow(<<"connect", "h", "x", "m">>),
    OkRow(<<"connect_self">>), OkRow(<<"connect_self", "m">>),
    OkRow(<<"bogus">>), ErrRow }

Inputs == UNION { [1..n -> RowSet] : n \in 0..MaxRows }

Paths == {"f", "g"}
\* A path with no file.
Absent == [exists |-> FALSE, data |-> <<>>]

\* ----------------------------------------------------------------- state
VARIABLES
  rows,               \* the input file: what the reader yields, in order
  pos,                \* reader: records consumed so far
  process_manager,    \* TaskCommander.process_manager: "Some" or "None"
  errors_encountered, \* TaskCommander.errors_encountered
  writer,             \* Logger.writer: "Ok" or "Err"
  sink,               \* the records the writer has serialized
  handed,             \* information events handed to log_event
  status,             \* "open", "closed" (get_num_errors consumed it), "discarded", "panicked"
  panicCause,         \* "none", "reader", "index" or "sink"
  lastRet,            \* what the last read_next call did: "none", "true", "false", "panic"
  eofCalls,           \* read_next calls that returned false
  reported,           \* the value get_num_errors returned, -1 before
  trace,              \* one entry per dispatched record
  fs,                 \* the file system: path -> file
  processes,          \* ProcessManager.processes, the roster
  system,             \* ProcessManager.system: the process-table snapshot
  live,               \* the operating system's process table
  nextPid,            \* the id the next spawned child gets
  spawnLog,           \* one entry per new_process call
  signals,            \* the process ids a kill signal was sent to
  selfExits,          \* the process ids that exited by themselves
  resisted,           \* the process ids a kill signal did not end within the grace window
  stopPc,             \* stop_all: "idle" or "loop"
  stopIdx,            \* stop_all: the roster index the loop is at
  callRoster,         \* the roster when the running or last stop_all began
  result,             \* the KillCount of the running or last stop_all
  stopRet,            \* what the last stop_all returned: "none", "Ok", "Err"
  stopCalls,          \* stop_all calls begun
  callLive,           \* the process table when the running or last stop_all began
  stopOrigins,        \* who began each stop_all: "explicit" (a caller) or "drop"
  stopValue,          \* the value the last stop_all returned to its caller
  prevCall,           \* the roster and the buckets of the stop_all before the last one begun
  netMode,            \* "idle", "connect" (send_message) or "loopback" (send_loopback_message)
  message,            \* the payload given to the call
  dest,               \* the ip and port send_message connects to
  netPc,              \* where the sending thread is
  listenerPort,       \* the port the system assigned to the listener, 0 without one
  stream,             \* the sender's TcpStream: "none", "open", "closed"
  localAddr,          \* the local address and port of the connection
  inflight,           \* bytes written to the connection and not yet read
  bytes_sent,         \* what stream.write returned
  netRet,             \* what the call returned
  accPc,              \* where the acceptor thread (server_listen) is
  data,               \* the acceptor's buffer
  recvRet,            \* what server_listen returned
  acceptErrs,         \* connections that failed to be accepted
  readFailed,         \* read_to_end returned an error
  backlog,            \* connections made to the listener and not yet accepted
  fileLog             \* the calls made on the file actor, with the file before and after

cmdVars == <<rows, pos, process_manager, errors_encountered, writer, sink, handed,
             status, panicCause, lastRet, eofCalls, reported, trace, fs>>
pmVars  == <<processes, system, live, nextPid, spawnLog, signals, selfExits, resisted>>
stopVars == <<stopPc, stopIdx, callRoster, result, stopRet, stopCalls,
              callLive, stopOrigins, stopValue, prevCall>>
netVars == <<netMode, message, dest, netPc, listenerPort, stream, localAddr, inflight,
             bytes_sent, netRet, accPc, data, recvRet, acceptErrs, readFailed, backlog>>
vars == <<cmdVars, pmVars, stopVars, netVars, fileLog>>

\* The part of the state one handler call works on, as a record; errs and
\* actors collect what this call reported and which actors it invoked.
Cur ==
  [ pm |-> process_manager, errors |-> errors_encountered, sink |-> sink,
    handed |-> handed, panic |-> "none", errs |-> <<>>, actors |-> <<>>,
    fs |-> fs, processes |-> processes, system |-> system, live |-> live,
    nextPid |-> nextPid, spawnLog |-> spawnLog, res |-> "none" ]

Act(op, arg) == [op |-> op, arg |-> arg]

\* What the environment decides during one call: the two serialize calls,
\* the spawn, the bind and the connect.
Choices ==
  [ ser1 : {"ok", "io"}, ser2 : {"ok", "io"},
    spawn : {"fail", "found", "notfound"},
    bind : {"ok", "fail"}, conn : {"ok", "refused", "writefail"} ]

\* The choices that matter to a record's verb (the others are fixed).
ChoicesFor(row) ==
  LET verb == IF row.ok /\ row.rec # <<>> THEN row.rec[1] ELSE "" IN
  { ch \in Choices :
      /\ verb # "process" => ch.spawn = "fail"
      /\ verb # "connect_self" => ch.bind = "ok"
      /\ verb \notin {"connect", "connect_self"} => ch.conn = "ok"
      /\ ~row.ok => ch.ser1 = "ok"
      /\ ch.ser1 = "ok" => ch.ser2 = "ok" }

\* --------------------------------------------------------------- logger
\* log_error that gives up silently when the record cannot be written.
log_error_swallows(c, kind, ser) ==
  IF c.panic # "none" THEN c
  ELSE IF writer = "Ok" /\ ser = "ok"
       THEN [c EXCEPT !.sink = Append(@, [t |-> "Error", what |-> kind])]
       ELSE c

\* log_error: serializes an Error record; panics when there is no writer
\* or the serialize fails (csv's UnequalLengths cannot occur: the writer is
\* built flexible).  A panic ends the call: every later step sees c.panic.
log_error(c, kind, ser) ==
  IF c.panic # "none" THEN c
  ELSE IF writer = "Ok" /\ ser = "ok"
       THEN [c EXCEPT !.sink = Append(@, [t |-> "Error", what |-> kind])]
       ELSE [c EXCEPT !.panic = "sink"]

\* log_event: serializes an Information record; a failure goes to
\* log_error as a "logging" error.
log_event(c, activity, ser1, ser2) ==
  IF c.panic # "none" THEN c
  ELSE LET c1 == [c EXCEPT !.handed = @ + 1] IN
       IF writer = "Ok" /\ ser1 = "ok"
       THEN [c1 EXCEPT !.sink = Append(@, [t |-> "Information", what |-> activity])]
       ELSE log_error(c1, "logging", ser2)

\* error_print: logs the error, then counts it.
error_print(c, kind, ser) ==
  IF c.panic # "none" THEN c
  ELSE LET c1 == log_error([c EXCEPT !.errs = Append(@, kind)], kind, ser) IN
       IF c1.panic # "none" THEN c1 ELSE [c1 EXCEPT !.errors = @ + 1]

\* ------------------------------------------------------ process manager
\* new_process: spawns path; sp is what the operating system does: the
\* spawn fails ("fail"), or the child starts and is still in the process
\* table at the refresh ("found") or has already died by then ("notfound").
\* c.res is the result: "Ok" or the error's kind.
\* (new_process_push_first: the record is pushed before the lookup.)
new_process_push_first(c, path, arguments, sp) ==
  IF sp = "fail"
  THEN [c EXCEPT !.res = "io", !.actors = Append(@, Act("spawn", path)),
                 !.spawnLog = Append(@, [id |-> 0, spawned |-> FALSE, found |-> FALSE, res |-> "io"])]
  ELSE LET pid   == c.nextPid
           live1 == IF sp = "found" THEN c.live \cup {pid} ELSE c.live
           found == pid \in live1
       IN  [c EXCEPT !.actors = Append(@, Act("spawn", path)),
                     !.nextPid = pid + 1, !.live = live1, !.system = live1,
                     !.spawnLog = Append(@, [id |-> pid, spawned |-> TRUE, found |-> found,
                                              res |-> IF found THEN "Ok" ELSE "processes"]),
                     !.processes = Append(@, [id |-> pid, cmd |-> <<path>> \o arguments]),
                     !.res = IF found THEN "Ok" ELSE "processes"]

new_process(c, path, arguments, sp) ==
  IF sp = "fail"
  THEN [c EXCEPT !.res = "io", !.actors = Append(@, Act("spawn", path)),
                 !.spawnLog = Append(@, [id |-> 0, spawned |-> FALSE, found |-> FALSE, res |-> "io"])]
  ELSE LET pid   == c.nextPid
           live1 == IF sp = "found" THEN c.live \cup {pid} ELSE c.live
           found == pid \in live1
       IN  [c EXCEPT !.actors = Append(@, Act("spawn", path)),
                     !.nextPid = pid + 1, !.live = live1, !.system = live1,
                     !.spawnLog = Append(@, [id |-> pid, spawned |-> TRUE, found |-> found,
                                              res |-> IF found THEN "Ok" ELSE "processes"]),
                     !.processes = IF found
                                   THEN Append(@, [id |-> pid, cmd |-> <<path>> \o arguments])
                                   ELSE @,
                     !.res = IF found THEN "Ok" ELSE "processes"]

\* ------------------------------------------------------ file operations
\* new_file opening with create and truncate in place of create_new.
new_file_create_truncate(c, path) ==
  [c EXCEPT !.res = "Ok", !.actors = Append(@, Act("new_file", path)),
            !.fs[path] = [exists |-> TRUE, data |-> <<>>]]

\* new_file: create_new fails when the file exists.
new_file(c, path) ==
  IF c.fs[path].exists
  THEN [c EXCEPT !.res = "io", !.actors = Append(@, Act("new_file", path))]
  ELSE [c EXCEPT !.res = "Ok", !.actors = Append(@, Act("new_file", path)),
                 !.fs[path] = [exists |-> TRUE, data |-> <<>>]]

\* mod_file opening with create(true): a missing file is made.
mod_file_creates_missing(c, path) ==
  [c EXCEPT !.res = "Ok", !.actors = Append(@, Act("mod_file", path)),
            !.fs[path] = [exists |-> TRUE,
                          data |-> IF c.fs[path].exists THEN Append(c.fs[path].data, 0)
                                   ELSE <<0>>]]

\* mod_file: opens an existing file for append and writes one null byte.
mod_file(c, path) ==
  IF ~c.fs[path].exists
  THEN [c EXCEPT !.res = "io", !.actors = Append(@, Act("mod_file", path))]
  ELSE [c EXCEPT !.res = "Ok", !.actors = Append(@, Act("mod_file", path)),
                 !.fs[path].data = Append(@, 0)]

\* delete_file that takes a missing file for a deleted one.
delete_file_ignore_missing(c, path) ==
  [c EXCEPT !.res = "Ok", !.actors = Append(@, Act("delete_file", path)),
            !.fs[path] = Absent]

\* delete_file: remove_file fails when there is no file.
delete_file(c, path) ==
  IF ~c.fs[path].exists
  THEN [c EXCEPT !.res = "io", !.actors = Append(@, Act("delete_file", path))]
  ELSE [c EXCEPT !.res = "Ok", !.actors = Append(@, Act("delete_file", path)),
                 !.fs[path] = Absent]

\* -------------------------------------------------------------- network
\* send_message without the check of the port.
send_message_no_port_check(c, ip, port, conn) ==
  [c EXCEPT !.actors = Append(@, Act("connect", ip)),
            !.res = IF conn = "ok" /\ port # 0 THEN "Ok" ELSE "network"]

\* send_message: port 0 is refused before any connection; conn is what
\* the connect and the write do.
send_message(c, ip, port, conn) ==
  IF port = 0 THEN [c EXCEPT !.res = "network"]
  ELSE [c EXCEPT !.actors = Append(@, Act("connect", ip)),
                 !.res = IF conn = "ok" THEN "Ok" ELSE "network"]

\* send_loopback_message: binds 127.0.0.1:0, starts the acceptor thread
\* on the listener, then connects to the port the system assigned (never 0).
send_loopback_message(c, bind, conn) ==
  IF bind = "fail"
  THEN [c EXCEPT !.res = "network", !.actors = Append(@, Act("bind", "127.0.0.1"))]
  ELSE send_message([c EXCEPT !.actors = @ \o <<Act("bind", "127.0.0.1"),
                                                     Act("server_listen", "127.0.0.1")>>],
                    "127.0.0.1", 49152, conn)

\* ------------------------------------------------------------ commander
\* A record's fields are params[1] (the verb, params[0] in the source),
\* params[2], ...; Len(params) is params.len().

\* The arguments string run_process builds from the fields after the path.
process_arguments(params) ==
  IF Len(params) > 2 THEN SubSeq(params, 3, Len(params)) ELSE <<>>

\* run_process asking for two arguments after the verb.
run_process_two_arguments(c, params, ch) ==
  IF c.pm = "None" THEN error_print(c, "user_permissions", ch.ser1)
  ELSE IF Len(params) < 3 THEN error_print(c, "input_format", ch.ser1)
  ELSE LET c1 == new_process(c, params[2], process_arguments(params), ch.spawn) IN
       IF c1.res = "Ok" THEN log_event(c1, "New Process", ch.ser1, ch.ser2)
       ELSE error_print(c1, c1.res, ch.ser1)

\* run_process checking the arity before the process manager.
run_process_arity_first(c, params, ch) ==
  IF Len(params) < 2 THEN error_print(c, "input_format", ch.ser1)
  ELSE IF c.pm = "None" THEN error_print(c, "user_permissions", ch.ser1)
  ELSE LET c1 == new_process(c, params[2], process_arguments(params), ch.spawn) IN
       IF c1.res = "Ok" THEN log_event(c1, "New Process", ch.ser1, ch.ser2)
       ELSE error_print(c1, c1.res, ch.ser1)

run_process(c, params, ch) ==
  IF c.pm = "None" THEN error_print(c, "user_permissions", ch.ser1)
  ELSE IF Len(params) < 2 THEN error_print(c, "input_format", ch.ser1)
  ELSE LET c1 == new_process(c, params[2], process_arguments(params), ch.spawn) IN
       IF c1.res = "Ok" THEN log_event(c1, "New Process", ch.ser1, ch.ser2)
       ELSE error_print(c1, c1.res, ch.ser1)

\* file_system that drops the event of a successful operation.
file_system_no_event(c, params, ch) ==
  IF Len(params) < 2 THEN error_print(c, "input_format", ch.ser1)
  ELSE LET c1 == CASE params[1] = "new_file"    -> new_file(c, params[2])
                   [] params[1] = "mod_file"    -> mod_file(c, params[2])
                   [] params[1] = "delete_file" -> delete_file(c, params[2])
       IN  IF c1.res = "Ok" THEN c1
           ELSE error_print(c1, c1.res, ch.ser1)

file_system(c, params, ch) ==
  IF Len(params) < 2 THEN error_print(c, "input_format", ch.ser1)
  ELSE IF params[1] \notin {"new_file", "mod_file", "delete_file"}
       THEN error_print(c, "input_format", ch.ser1)
  ELSE LET c1 == CASE params[1] = "new_file"    -> new_file(c, params[2])
                   [] params[1] = "mod_file"    -> mod_file(c, params[2])
                   [] params[1] = "delete_file" -> delete_file(c, params[2])
       IN  IF c1.res = "Ok"
           THEN log_event(c1, CASE params[1] = "new_file"    -> "New File"
                                [] params[1] = "mod_file"    -> "Modify File"
                                [] params[1] = "delete_file" -> "Delete File",
                          ch.ser1, ch.ser2)
           ELSE error_print(c1, c1.res, ch.ser1)

\* network with the port defaulted to 0 when it does not parse.
network_port_defaulted(c, params, ch) ==
  IF \/ Len(params) < 2 /\ params[1] = "connect_self"
     \/ Len(params) < 4 /\ params[1] = "connect"
  THEN error_print(c, "input_format", ch.ser1)
  ELSE LET c1 == IF params[1] = "connect"
                 THEN send_message(c, params[2],
                                   IF ParseU16(params[3]) = -1 THEN 0 ELSE ParseU16(params[3]),
                                   ch.conn)
                 ELSE send_loopback_message(c, ch.bind, ch.conn)
       IN  IF c1.res = "Ok" THEN log_event(c1, "Network Connection", ch.ser1, ch.ser2)
           ELSE error_print(c1, c1.res, ch.ser1)

network(c, params, ch) ==
  IF \/ Len(params) < 2 /\ params[1] = "connect_self"
     \/ Len(params) < 4 /\ params[1] = "connect"
  THEN error_print(c, "input_format", ch.ser1)
  ELSE IF params[1] = "connect" /\ ParseU16(params[3]) = -1
       THEN error_print(c, "input_format", ch.ser1)
  ELSE IF params[1] \notin {"connect", "connect_self"}
       THEN error_print(c, "input_format", ch.ser1)
  ELSE LET c1 == IF params[1] = "connect"
                 THEN send_message(c, params[2], ParseU16(params[3]), ch.conn)
                 ELSE send_loopback_message(c, ch.bind, ch.conn)
       IN  IF c1.res = "Ok" THEN log_event(c1, "Network Connection", ch.ser1, ch.ser2)
           ELSE error_print(c1, c1.res, ch.ser1)

\* pause with params.get(1) in place of the index: no panic, the missing
\* duration is parsed as empty text and reported a second time.
pause_unchecked_get(c, params, ch) ==
  LET c1 == IF Len(params) < 2 THEN error_print(c, "input_format", ch.ser1) ELSE c
      text == IF Len(params) < 2 THEN "" ELSE params[2]
  IN  IF ParseU64(text) = <<>> THEN error_print(c1, "input_format", ch.ser2)
      ELSE [c1 EXCEPT !.actors = Append(@, Act("sleep", text))]

\* pause: a record without a duration is reported and the handler goes on
\* to params[1], which panics (StringRecord's index is out of bounds).
pause(c, params, ch) ==
  LET c1 == IF Len(params) < 2 THEN error_print(c, "input_format", ch.ser1) ELSE c IN
  IF c1.panic # "none" THEN c1
  ELSE IF Len(params) < 2 THEN [c1 EXCEPT !.panic = "index"]
  ELSE IF ParseU64(params[2]) = <<>> THEN error_print(c1, "input_format", ch.ser1)
  ELSE [c1 EXCEPT !.actors = Append(@, Act("sleep", params[2]))]

\* The match on the verb in read_next; an Err from the reader is unwrapped
\* and panics.
dispatch(c, row, ch) ==
  IF ~row.ok THEN [c EXCEPT !.panic = "reader"]
  ELSE LET params == row.rec IN
       CASE params[1] = "process" -> run_process(c, params, ch)
         [] params[1] = "pause" -> pause(c, params, ch)
         [] params[1] \in {"new_file", "mod_file", "delete_file"} -> file_system(c, params, ch)
         [] params[1] \in {"connect", "connect_self"} -> network(c, params, ch)
         [] OTHER -> error_print(c, "input_format", ch.ser1)

\* A reader that yields the next record without consuming it.
next_record_no_advance(rs, p) ==
  IF p < Len(rs) THEN [some |-> TRUE, row |-> rs[p + 1], pos |-> p]
  ELSE [some |-> FALSE, row |-> ErrRow, pos |-> p]

\* reader.records().next(): the next record, if any, and the new position.
next_record(rs, p) ==
  IF p < Len(rs) THEN [some |-> TRUE, row |-> rs[p + 1], pos |-> p + 1]
  ELSE [some |-> FALSE, row |-> ErrRow, pos |-> p]

\* ------------------------------------------------------------- stop_all
EmptyKillCount == [killed |-> <<>>, premature |-> <<>>, failures |-> <<>>]

\* stop_process: Ok iff the id is in the snapshot (then the signal is sent).
stop_process(snapshot, pid) == pid \in snapshot

\* The start of stop_all: an empty KillCount and a refreshed snapshot.
StopAllBegin ==
  /\ stopPc' = "loop"
  /\ stopIdx' = 1
  /\ result' = EmptyKillCount
  /\ stopRet' = "none"
  /\ stopValue' = [tag |-> "none"]
  /\ prevCall' = [roster |-> callRoster, result |-> result]
  /\ stopCalls' = stopCalls + 1

\* A manager released without its Drop running stop_all.
DropManager_leak(c) ==
  /\ UNCHANGED stopVars
  /\ system' = c.system

\* Dropping the ProcessManager runs stop_all; without one nothing runs.
DropManager(c) ==
  IF c.pm = "Some"
  THEN /\ StopAllBegin
       /\ stopOrigins' = Append(stopOrigins, "drop")
       /\ callRoster' = c.processes
       /\ callLive' = c.live
       /\ system' = c.live
  ELSE /\ UNCHANGED stopVars
       /\ system' = c.system

\* Writes what a handler call left in c back to the state (all but system
\* and the stop_all variables).
Store(c) ==
  /\ errors_encountered' = c.errors
  /\ sink' = c.sink
  /\ handed' = c.handed
  /\ fs' = c.fs
  /\ processes' = c.processes
  /\ live' = c.live
  /\ nextPid' = c.nextPid
  /\ spawnLog' = c.spawnLog

\* read_next.  A panic unwinds and drops the commander, and with it the
\* process manager.
read_next ==
  /\ UNCHANGED <<netVars, fileLog>>
  /\ status = "open"
  /\ LET n == next_record(rows, pos) IN
     IF n.some
     THEN \E ch \in ChoicesFor(n.row) :
            LET c == dispatch(Cur, n.row, ch) IN
            /\ pos' = n.pos
            /\ Store(c)
            /\ trace' = Append(trace, [row |-> n.row, errs |-> c.errs, actors |-> c.actors,
                                       events |-> c.handed - handed,
                                       counted |-> c.errors - errors_encountered,
                                       res |-> c.res,
                                       ret |-> IF c.panic = "none" THEN "true" ELSE "panic"])
            /\ panicCause' = c.panic
            /\ lastRet' = IF c.panic = "none" THEN "true" ELSE "panic"
            /\ status' = IF c.panic = "none" THEN "open" ELSE "panicked"
            /\ IF c.panic = "none"
               THEN UNCHANGED stopVars /\ system' = c.system
               ELSE DropManager(c)
            /\ UNCHANGED <<rows, process_manager, writer, eofCalls, reported, signals,
                           selfExits, resisted>>
     ELSE /\ eofCalls < MaxEofCalls
          /\ eofCalls' = eofCalls + 1
          /\ pos' = n.pos
          /\ lastRet' = "false"
          /\ UNCHANGED <<rows, process_manager, errors_encountered, writer, sink, handed,
                         status, panicCause, reported, trace, fs, pmVars, stopVars>>

\* get_num_errors: returns the counter and consumes the commander, which
\* drops the process manager.
get_num_errors ==
  /\ UNCHANGED <<netVars, fileLog>>
  /\ status = "open"
  /\ reported' = errors_encountered
  /\ status' = "closed"
  /\ DropManager(Cur)
  /\ UNCHANGED <<rows, pos, process_manager, errors_encountered, writer, sink, handed,
                 panicCause, lastRet, eofCalls, trace, fs,
                 processes, live, nextPid, spawnLog, signals, selfExits, resisted>>

\* The owner lets the commander go out of scope without get_num_errors
\* (main reports an empty input and returns): its fields are dropped, the
\* process manager among them.
discard ==
  /\ UNCHANGED <<netVars, fileLog>>
  /\ status = "open"
  /\ status' = "discarded"
  /\ DropManager(Cur)
  /\ UNCHANGED <<rows, pos, process_manager, errors_encountered, writer, sink, handed,
                 panicCause, lastRet, eofCalls, reported, trace, fs,
                 processes, live, nextPid, spawnLog, signals, selfExits, resisted>>

\* classify that leaves out a record whose process was already gone.
classify_skips_premature(kc, process, first, second) ==
  IF first
  THEN IF second THEN [kc EXCEPT !.failures = Append(@, process)]
       ELSE [kc EXCEPT !.killed = Append(@, process)]
  ELSE kc

\* classify with the Err arm of the first match and the Err arm of the
\* second exchanged.
classify_outer_inner_swapped(kc, process, first, second) ==
  IF first
  THEN IF second THEN [kc EXCEPT !.failures = Append(@, process)]
       ELSE [kc EXCEPT !.premature = Append(@, process)]
  ELSE [kc EXCEPT !.killed = Append(@, process)]

\* classify with the arms of the second match exchanged.
classify_inverted(kc, process, first, second) ==
  IF first
  THEN IF second THEN [kc EXCEPT !.killed = Append(@, process)]
       ELSE [kc EXCEPT !.failures = Append(@, process)]
  ELSE [kc EXCEPT !.premature = Append(@, process)]

\* The bucket one record goes to: first and second are the results of the
\* two stop_process calls (TRUE for Ok); the second is made only after a
\* first Ok.
classify(kc, process, first, second) ==
  IF first
  THEN IF second THEN [kc EXCEPT !.failures = Append(@, process)]
       ELSE [kc EXCEPT !.killed = Append(@, process)]
  ELSE [kc EXCEPT !.premature = Append(@, process)]

\* The loop step without the second stop_process: a signalled record is
\* taken to be killed.
StopAllStep_no_verification ==
  /\ UNCHANGED <<netVars, fileLog>>
  /\ stopPc = "loop"
  /\ stopIdx <= Len(processes)
  /\ LET process == processes[stopIdx] IN
     IF stop_process(system, process.id)
     THEN \E dies \in BOOLEAN :
            LET live1 == IF dies THEN live \ {process.id} ELSE live IN
            /\ live' = live1
            /\ system' = live1
            /\ result' = classify(result, process, TRUE, FALSE)
            /\ signals' = Append(signals, process.id)
            /\ resisted' = IF process.id \in live1 THEN resisted \cup {process.id}
                           ELSE resisted
     ELSE /\ result' = classify(result, process, FALSE, FALSE)
          /\ UNCHANGED <<live, system, signals, resisted>>
  /\ stopIdx' = stopIdx + 1
  /\ UNCHANGED <<cmdVars, processes, nextPid, spawnLog, selfExits, stopPc, callRoster,
                 stopRet, stopCalls, callLive, stopOrigins, stopValue, prevCall>>

\* One iteration of stop_all's loop, for the record at stopIdx.  The kill
\* signal either ends the process within the 100 ms grace window or not;
\* every stop_process that finds the id sends a signal.
StopAllStep ==
  /\ UNCHANGED <<netVars, fileLog>>
  /\ stopPc = "loop"
  /\ stopIdx <= Len(processes)
  /\ LET process == processes[stopIdx] IN
     IF stop_process(system, process.id)
     THEN \E dies \in BOOLEAN :
            LET live1 == IF dies THEN live \ {process.id} ELSE live IN
            /\ live' = live1
            /\ system' = live1
            /\ result' = classify(result, process, TRUE, stop_process(live1, process.id))
            /\ signals' = IF stop_process(live1, process.id)
                          THEN signals \o <<process.id, process.id>>
                          ELSE Append(signals, process.id)
            /\ resisted' = IF process.id \in live1 THEN resisted \cup {process.id}
                           ELSE resisted
     ELSE /\ result' = classify(result, process, FALSE, FALSE)
          /\ UNCHANGED <<live, system, signals, resisted>>
  /\ stopIdx' = stopIdx + 1
  /\ UNCHANGED <<cmdVars, processes, nextPid, spawnLog, selfExits, stopPc, callRoster,
                 stopRet, stopCalls, callLive, stopOrigins, stopValue, prevCall>>

\* GenerationError::new: a kind and a message, no io sub-kind.
GenerationError_new(kind, text) ==
  [kind |-> kind, io_subkind |-> "None", message |-> text]

\* stop_all_return that fails as soon as one record is in failures.
stop_all_return_any_failure(kc) ==
  IF Len(kc.failures) > 0
  THEN [tag |-> "Err",
        error |-> GenerationError_new("process", "All Child Processes Failed to Terminate")]
  ELSE [tag |-> "Ok", kc |-> kc]

\* stop_all_return with the kind spelled as stop_process spells it.
stop_all_return_other_kind(kc) ==
  IF Len(kc.killed) = 0 /\ Len(kc.premature) = 0 /\ Len(kc.failures) > 0
  THEN [tag |-> "Err",
        error |-> GenerationError_new("processs", "All Child Processes Failed to Terminate")]
  ELSE [tag |-> "Ok", kc |-> kc]

\* What stop_all returns once the loop is over: Err only when every record
\* is in failures, else the KillCount.
stop_all_return(kc) ==
  IF Len(kc.killed) = 0 /\ Len(kc.premature) = 0 /\ Len(kc.failures) > 0
  THEN [tag |-> "Err",
        error |-> GenerationError_new("process", "All Child Processes Failed to Terminate")]
  ELSE [tag |-> "Ok", kc |-> kc]

\* The end of stop_all, with the caller calling it once more after an error.
StopAllEnd_retry_on_error ==
  /\ UNCHANGED <<netVars, fileLog>>
  /\ stopPc = "loop"
  /\ stopIdx > Len(processes)
  /\ stopValue' = stop_all_return(result)
  /\ stopRet' = stop_all_return(result).tag
  /\ IF stop_all_return(result).tag = "Err" /\ stopCalls < 2
     THEN /\ stopPc' = "loop"
          /\ stopIdx' = 1
          /\ result' = EmptyKillCount
          /\ stopCalls' = stopCalls + 1
          /\ stopOrigins' = Append(stopOrigins, "drop")
     ELSE /\ stopPc' = "idle"
          /\ UNCHANGED <<stopIdx, result, stopCalls, stopOrigins>>
  /\ UNCHANGED <<cmdVars, pmVars, callRoster, callLive, prevCall>>

\* The end of stop_all, with the roster emptied.
StopAllEnd_clears_roster ==
  /\ UNCHANGED <<netVars, fileLog>>
  /\ stopPc = "loop"
  /\ stopIdx > Len(processes)
  /\ stopValue' = stop_all_return(result)
  /\ stopRet' = stop_all_return(result).tag
  /\ stopPc' = "idle"
  /\ processes' = <<>>
  /\ UNCHANGED <<cmdVars, system, live, nextPid, spawnLog, signals, selfExits, resisted,
                 stopIdx, callRoster, result, stopCalls, callLive, stopOrigins, prevCall>>

\* The end of stop_all.
StopAllEnd ==
  /\ UNCHANGED <<netVars, fileLog>>
  /\ stopPc = "loop"
  /\ stopIdx > Len(processes)
  /\ stopValue' = stop_all_return(result)
  /\ stopRet' = stop_all_return(result).tag
  /\ stopPc' = "idle"
  /\ UNCHANGED <<cmdVars, pmVars, stopIdx, callRoster, result, stopCalls, callLive,
                 stopOrigins, prevCall>>

\* A process of the table exits by itself.
ProcExit ==
  /\ UNCHANGED <<netVars, fileLog>>
  /\ \E p \in live : live' = live \ {p} /\ selfExits' = selfExits \cup {p}
  /\ UNCHANGED <<cmdVars, processes, system, nextPid, spawnLog, signals, resisted, stopVars>>

InitCore ==
  /\ rows \in Inputs
  /\ pos = 0
  /\ process_manager \in {"Some", "None"}
  /\ errors_encountered = 0
  /\ writer \in {"Ok", "Err"}
  /\ sink = <<>>
  /\ handed = 0
  /\ status = "open"
  /\ panicCause = "none"
  /\ lastRet = "none"
  /\ eofCalls = 0
  /\ reported = -1
  /\ trace = <<>>
  /\ processes = <<>>
  /\ system = {}
  /\ live = {}
  /\ nextPid = 1
  /\ spawnLog = <<>>
  /\ signals = <<>>
  /\ selfExits = {}
  /\ resisted = {}
  /\ stopPc = "idle"
  /\ stopIdx = 1
  /\ callRoster = <<>>
  /\ result = EmptyKillCount
  /\ stopRet = "none"
  /\ stopCalls = 0
  /\ callLive = {}
  /\ stopOrigins = <<>>
  /\ stopValue = [tag |-> "none"]
  /\ prevCall = [roster |-> <<>>, result |-> EmptyKillCount]

\* No network call in progress.
NetIdle ==
  /\ netMode = "idle"
  /\ message = <<>>
  /\ dest = [ip |-> "", port |-> 0]
  /\ netPc = "idle"
  /\ listenerPort = 0
  /\ stream = "none"
  /\ localAddr = [ip |-> "", port |-> 0]
  /\ inflight = <<>>
  /\ bytes_sent = 0
  /\ netRet = [tag |-> "none"]
  /\ accPc = "none"
  /\ data = <<>>
  /\ recvRet = <<>>
  /\ acceptErrs = 0
  /\ readFailed = FALSE
  /\ backlog = 0

Init ==
  /\ InitCore
  /\ fs = [p \in Paths |-> Absent]
  /\ NetIdle
  /\ fileLog = <<>>

Next == read_next \/ get_num_errors \/ StopAllStep \/ StopAllEnd \/ ProcExit

Spec == Init /\ [][Next]_vars

\* Sessions over the records that reach the process manager or end the
\* session by a panic, closed by get_num_errors or by the commander being
\* discarded.
SessionRows ==
  { OkRow(<<"process">>), OkRow(<<"process", "sh">>), OkRow(<<"pause">>), ErrRow }

InitSession ==
  /\ Init
  /\ \A i \in 1..Len(rows) : rows[i] \in SessionRows

NextSession ==
  read_next \/ get_num_errors \/ discard \/ StopAllStep \/ StopAllEnd \/ ProcExit

SpecSession == InitSession /\ [][NextSession]_vars

\* The thread that drops the manager runs stop_all's loop to its end: each
\* iteration is a lookup, a signal and a sleep of 100 ms.
SpecSessionFair ==
  SpecSession /\ WF_vars(StopAllStep) /\ WF_vars(StopAllEnd)

\* ------------------------------------------- the process manager alone
\* A ProcessManager used directly: new_process and stop_all in any order.
PMNewProcess ==
  /\ UNCHANGED <<netVars, fileLog>>
  /\ stopPc = "idle"
  /\ Len(spawnLog) < MaxSpawns
  /\ \E sp \in {"fail", "found", "notfound"} :
       LET c == new_process(Cur, "sh", <<>>, sp) IN
       /\ Store(c)
       /\ system' = c.system
  /\ UNCHANGED <<rows, pos, process_manager, writer, status, panicCause, lastRet,
                 eofCalls, reported, trace, signals, selfExits, resisted, stopVars>>

\* stop_all without the refresh of the snapshot at its start.
PMStopAll_no_refresh ==
  /\ UNCHANGED <<netVars, fileLog>>
  /\ stopPc = "idle"
  /\ stopCalls < MaxStopCalls
  /\ StopAllBegin
  /\ stopOrigins' = Append(stopOrigins, "explicit")
  /\ callRoster' = processes
  /\ callLive' = live
  /\ UNCHANGED <<cmdVars, processes, system, live, nextPid, spawnLog, signals, selfExits,
                 resisted>>

\* An explicit call of stop_all by the owner of the manager.
PMStopAll ==
  /\ UNCHANGED <<netVars, fileLog>>
  /\ stopPc = "idle"
  /\ stopCalls < MaxStopCalls
  /\ StopAllBegin
  /\ stopOrigins' = Append(stopOrigins, "explicit")
  /\ callRoster' = processes
  /\ callLive' = live
  /\ system' = live
  /\ UNCHANGED <<cmdVars, processes, live, nextPid, spawnLog, signals, selfExits, resisted>>

InitPM ==
  /\ Init
  /\ rows = <<>>
  /\ process_manager = "Some"
  /\ writer = "Ok"

NextPM == PMNewProcess \/ PMStopAll \/ StopAllStep \/ StopAllEnd \/ ProcExit

SpecPM == InitPM /\ [][NextPM]_vars

\* =============================================================== claims
\* What the claims say about the input, stated on the records themselves.
Verb(row) == row.rec[1]

\* The fields (verb included) a record needs: the arity checks of the
\* handlers.
MinFields(verb) ==
  CASE verb = "connect" -> 4
    [] verb \in {"process", "pause", "new_file", "mod_file", "delete_file",
                 "connect_self"} -> 2
    [] OTHER -> 0

KnownVerbs ==
  {"process", "pause", "new_file", "mod_file", "delete_file", "connect", "connect_self"}

\* A malformed record: an unknown verb, too few fields for the verb, an
\* unparseable port or pause duration.
Malformed(rec) ==
  \/ rec[1] \notin KnownVerbs
  \/ Len(rec) < MinFields(rec[1])
  \/ rec[1] = "connect" /\ ParseU16(rec[3]) = -1
  \/ rec[1] = "pause" /\ ParseU64(rec[2]) = <<>>

\* The action of a dispatched record succeeded.
Succeeded(e) ==
  IF Verb(e.row) = "pause" THEN e.actors = <<Act("sleep", e.row.rec[2])>>
  ELSE e.res = "Ok"

\* No record was refused by the sink.
SinkHealthy ==
  /\ panicCause # "sink"
  /\ \A i \in 1..Len(sink) : sink[i].what # "logging"

\* The session is over: read_next returned false, or it did not return.
SessionOver == lastRet \in {"false", "panic"}

MalformedRows == {i \in 1..Len(rows) : rows[i].ok /\ Malformed(rows[i].rec)}

\* Every record of the input is readable, and every dispatched one was
\* either malformed or valid with its action succeeding.
MalformedOrSucceeded ==
  /\ \A i \in 1..Len(rows) : rows[i].ok
  /\ \A i \in 1..Len(trace) : Malformed(trace[i].row.rec) \/ Succeeded(trace[i])

\* C1: for an input whose records are K malformed ones and otherwise valid
\* ones that succeed, once the session is over read_next has returned
\* false, the error count is K and every valid record was dispatched and
\* succeeded, wherever the malformed records sit.
C1_ErrorCountIsMalformedCount ==
  (SessionOver /\ SinkHealthy /\ MalformedOrSucceeded) =>
     /\ lastRet = "false"
     /\ errors_encountered = Cardinality(MalformedRows)
     /\ \A i \in (1..Len(rows)) \ MalformedRows :
          i <= Len(trace) /\ Succeeded(trace[i])

\* C2: no record makes read_next terminate abnormally: the only panic
\* left is the sink's.
C2_NoAbortOnBadRow == panicCause \in {"none", "sink"}

\* C3: the error counter never decreases; a read_next call that returns
\* true changes it by 0 or 1, a call that returns false leaves it as it is.
C3_CounterStepsByAtMostOne ==
  [][ /\ errors_encountered' >= errors_encountered
      /\ (Len(trace') > Len(trace) /\ lastRet' = "true")
            => errors_encountered' - errors_encountered \in {0, 1}
      /\ eofCalls' > eofCalls => errors_encountered' = errors_encountered ]_vars

\* A pause record with a bad duration was counted once and read_next
\* returned true, and a later call returned false.
C3_Witness ==
  /\ lastRet = "false"
  /\ \E i \in 1..Len(trace) :
       /\ Verb(trace[i].row) = "pause"
       /\ trace[i].ret = "true"
       /\ trace[i].counted = 1

\* Every record of the input is well formed and its action succeeded.
AllValidAndSucceeded ==
  /\ Len(trace) = Len(rows)
  /\ \A i \in 1..Len(trace) :
       trace[i].row.ok /\ ~Malformed(trace[i].row.rec) /\ Succeeded(trace[i])

PauseRows == {i \in 1..Len(rows) : rows[i].ok /\ Verb(rows[i]) = "pause"}

C5_InOrderOnceThenTerminal ==
  [][ /\ Len(trace') \in {Len(trace), Len(trace) + 1}
      /\ Len(trace') <= Len(rows)
      /\ \A i \in 1..Len(trace') :
           /\ trace'[i].row = rows[i]
           /\ (trace'[i].row.ok /\ Verb(trace'[i].row) = "pause"
                 /\ ~Malformed(trace'[i].row.rec))
                => trace'[i].actors = <<Act("sleep", rows[i].rec[2])>>
      /\ lastRet = "false" =>
           /\ lastRet' = "false"
           /\ <<trace, pos, errors_encountered, sink, handed, fs, processes>>'
                = <<trace, pos, errors_encountered, sink, handed, fs, processes>> ]_vars

\* Two different records were dispatched, a pause among them, and
\* read_next was called again after it had returned false.
C5_Witness ==
  /\ Len(trace) = 2
  /\ trace[1].row # trace[2].row
  /\ \E i \in 1..2 : trace[i].row.rec = <<"pause", "5">> /\ trace[i].ret = "true"
  /\ eofCalls >= 2

\* A record that fails one of the checks the claim lists.
FailsCheck(rec) ==
  \/ rec[1] \notin KnownVerbs
  \/ rec[1] \in {"new_file", "mod_file", "delete_file"} /\ Len(rec) < 2
  \/ rec[1] = "connect" /\ (Len(rec) < 4 \/ ParseU16(rec[3]) = -1)
  \/ rec[1] = "connect_self" /\ Len(rec) < 2
  \/ rec[1] = "pause" /\ (Len(rec) < 2 \/ ParseU64(rec[2]) = <<>>)

\* C6: a record that fails a check invokes no actor and is reported as
\* one input_format error.
C6_ValidationBeforeEffects ==
  \A i \in 1..Len(trace) :
    (trace[i].row.ok /\ FailsCheck(trace[i].row.rec)) =>
       /\ trace[i].actors = <<>>
       /\ trace[i].res = "none"
       /\ trace[i].errs = <<"input_format">>

\* A connect record with a port that does not parse and a file record
\* without a path were both dispatched.
C6_Witness ==
  /\ Len(trace) = 2
  /\ trace[1].row.rec = <<"connect", "h", "65536", "m">>
  /\ trace[2].row.rec = <<"new_file">>
  /\ trace[2].ret = "true"

ProcessEntries == {i \in 1..Len(trace) : trace[i].row.ok /\ Verb(trace[i].row) = "process"}

Spawned(e) == \E k \in 1..Len(e.actors) : e.actors[k].op = "spawn"

\* C7 as stated: with a process manager, a process record with fewer than
\* 2 arguments is an input_format error and spawns nothing.
C7_ProcessNeedsTwoArguments ==
  process_manager = "Some" =>
    \A i \in ProcessEntries :
      Len(trace[i].row.rec) < 3 =>
        trace[i].errs = <<"input_format">> /\ ~Spawned(trace[i])

\* C7, amended: with a process manager, a process record with no argument
\* is an input_format error and spawns nothing; one with the executable
\* path alone is spawned.
C7_ProcessNeedsOneArgument ==
  process_manager = "Some" =>
    \A i \in ProcessEntries :
      /\ Len(trace[i].row.rec) < 2 =>
           trace[i].errs = <<"input_format">> /\ ~Spawned(trace[i])
      /\ Len(trace[i].row.rec) >= 2 =>
           /\ Spawned(trace[i])
           /\ \A k \in 1..Len(trace[i].errs) : trace[i].errs[k] # "input_format"

\* A process record with no argument and one with the path alone were
\* dispatched with a process manager.
C7_Witness ==
  /\ process_manager = "Some"
  /\ Len(trace) = 2
  /\ trace[1].row.rec = <<"process">>
  /\ trace[2].row.rec = <<"process", "sh">>
  /\ trace[2].res = "Ok"

\* C8: without a process manager every process record is one
\* user_permissions error and spawns nothing, and what the next record
\* does, when it is not a process record, is the same with and without
\* the process manager.
C8_DegradesPerVerb ==
  /\ process_manager = "None" =>
       \A i \in ProcessEntries :
         /\ trace[i].errs = <<"user_permissions">>
         /\ trace[i].actors = <<>>
         /\ trace[i].ret = "true" => trace[i].counted = 1
  /\ (status = "open" /\ pos < Len(rows)) =>
       LET row == rows[pos + 1] IN
       (row.ok /\ Verb(row) # "process") =>
         \A ch \in ChoicesFor(row) :
           dispatch([Cur EXCEPT !.pm = "None"], row, ch)
             = [dispatch([Cur EXCEPT !.pm = "Some"], row, ch) EXCEPT !.pm = "None"]

\* Without a process manager a well-formed and a malformed process record
\* were dispatched, or a process record and then a file record that acted.
C8_Witness ==
  /\ process_manager = "None"
  /\ Len(trace) = 2
  /\ trace[1].row.rec = <<"process", "sh">>
  /\ trace[1].ret = "true"
  /\ trace[2].row.rec = <<"new_file", "f">>
  /\ trace[2].res = "Ok"

\* The ids that new_process calls found in the refreshed process table.
RECURSIVE FoundIds(_)
FoundIds(log) ==
  IF log = <<>> THEN <<>>
  ELSE LET e == log[Len(log)]
           rest == FoundIds(SubSeq(log, 1, Len(log) - 1))
       IN  IF e.spawned /\ e.found THEN Append(rest, e.id) ELSE rest

\* C9: the roster holds exactly the records whose spawn succeeded and
\* whose id was found at the refresh; any other new_process call returned
\* an error.
C9_RosterIffSpawnedAndFound ==
  /\ [i \in 1..Len(processes) |-> processes[i].id] = FoundIds(spawnLog)
  /\ \A j \in 1..Len(spawnLog) :
       spawnLog[j].res = "Ok" <=> (spawnLog[j].spawned /\ spawnLog[j].found)

\* A failed spawn, a child that was gone at the refresh and a found child,
\* with a stop_all after them.
C9_Witness ==
  /\ Len(spawnLog) = 3
  /\ \E j \in 1..3 : ~spawnLog[j].spawned
  /\ \E j \in 1..3 : spawnLog[j].spawned /\ ~spawnLog[j].found
  /\ Len(processes) = 1
  /\ stopCalls >= 1
  /\ stopPc = "idle"

Buckets == result.killed \o result.premature \o result.failures

\* C10: the three buckets of a stop_all call hold each record of the
\* roster at call time exactly once between them.
C10_BucketsPartitionRoster ==
  /\ stopPc = "loop" => Len(Buckets) = stopIdx - 1
  /\ (stopPc = "idle" /\ stopCalls > 0) =>
       /\ Len(Buckets) = Len(callRoster)
       /\ \A i \in 1..Len(callRoster) :
            Cardinality({j \in 1..Len(Buckets) : Buckets[j] = callRoster[i]}) = 1

\* A stop_all call that put one record in each bucket.
C10_Witness ==
  /\ stopPc = "idle"
  /\ Len(result.killed) = 1
  /\ Len(result.premature) = 1
  /\ Len(result.failures) = 1

\* ---------------------------------------------------- the network actor
\* send_message and send_loopback_message step by step, with the acceptor
\* thread (server_listen) running beside the sending thread.

Bytes == {0, 1}

Payloads == UNION { [1..n -> Bytes] : n \in 0..MaxPayload }

\* The ports the system may assign to a listener bound to port 0.
EphemeralPorts == {49152, 49153}

\* The local end of a connection made by TcpStream::connect.
ClientAddr == [ip |-> "127.0.0.1", port |-> 50000]

\* The numbers of bytes one write call may report for a buffer: anything up
\* to its length, and at least one byte of a buffer that is not empty.
Accepted(buf) == IF Len(buf) = 0 THEN {0} ELSE 1..Len(buf)

\* adapt_log_network: the Event of a network connection.
adapt_log_network(source_addr, source_port, dest_addr, dest_port, sent) ==
  [activity |-> "Network Connection", source_addr |-> source_addr,
   source_port |-> source_port, dest_addr |-> dest_addr, dest_port |-> dest_port,
   bytes_sent |-> sent, protocol |-> "TCP/IP"]

NetErr(kind) == [tag |-> "Err", kind |-> kind]

senderVars == <<netMode, message, dest, netPc, listenerPort, stream, localAddr, inflight,
                bytes_sent, netRet>>
acceptorVars == <<accPc, data, recvRet, acceptErrs, readFailed>>
otherVars == <<cmdVars, pmVars, stopVars, fileLog>>

\* spawn_server("127.0.0.1", 0): the bind fails, or the system assigns a port.
NetBind ==
  /\ UNCHANGED backlog
  /\ netMode = "loopback"
  /\ netPc = "start"
  /\ \/ /\ netRet' = NetErr("network")
        /\ netPc' = "returned"
        /\ UNCHANGED listenerPort
     \/ /\ listenerPort' \in EphemeralPorts
        /\ netPc' = "bound"
        /\ UNCHANGED netRet
  /\ UNCHANGED <<netMode, message, dest, stream, localAddr, inflight, bytes_sent,
                 acceptorVars, otherVars>>

\* The call of send_message with the port that was asked for, 0, in place
\* of the port the listener was given.
NetSpawnThread_requested_port ==
  /\ UNCHANGED backlog
  /\ netPc = "bound"
  /\ accPc' = "spawned"
  /\ dest' = [ip |-> "127.0.0.1", port |-> 0]
  /\ netPc' = "send"
  /\ UNCHANGED <<netMode, message, listenerPort, stream, localAddr, inflight, bytes_sent,
                 netRet, data, recvRet, acceptErrs, readFailed, otherVars>>

\* thread::spawn(server_listen) and the call of send_message with the
\* listener's port.  The new thread has not yet reached incoming().
NetSpawnThread ==
  /\ UNCHANGED backlog
  /\ netPc = "bound"
  /\ accPc' = "spawned"
  /\ dest' = [ip |-> "127.0.0.1", port |-> listenerPort]
  /\ netPc' = "send"
  /\ UNCHANGED <<netMode, message, listenerPort, stream, localAddr, inflight, bytes_sent,
                 netRet, data, recvRet, acceptErrs, readFailed, otherVars>>

\* send_message up to the connection: port 0 is refused, else
\* TcpStream::connect succeeds or fails.
NetConnect ==
  /\ netPc = "send"
  /\ IF dest.port = 0
     THEN /\ netRet' = NetErr("network")
          /\ netPc' = "returned"
          /\ UNCHANGED <<stream, localAddr, backlog>>
     ELSE \/ /\ stream' = "open"
             /\ localAddr' = ClientAddr
             /\ netPc' = "connected"
             /\ backlog' = IF netMode = "loopback" THEN backlog + 1 ELSE backlog
             /\ UNCHANGED netRet
          \/ /\ netRet' = NetErr("network")
             /\ netPc' = "returned"
             /\ UNCHANGED <<stream, localAddr, backlog>>
  /\ UNCHANGED <<netMode, message, dest, listenerPort, inflight, bytes_sent,
                 acceptorVars, otherVars>>

\* The one stream.write(message) call: it reports how many bytes of the
\* buffer it wrote, or fails, which drops the stream.
NetWrite ==
  /\ UNCHANGED backlog
  /\ netPc = "connected"
  /\ \/ \E k \in Accepted(message) :
          /\ inflight' = inflight \o SubSeq(message, 1, k)
          /\ bytes_sent' = k
          /\ netPc' = "written"
          /\ UNCHANGED <<netRet, stream>>
     \/ /\ netRet' = NetErr("network")
        /\ stream' = "closed"
        /\ netPc' = "returned"
        /\ UNCHANGED <<inflight, bytes_sent>>
  /\ UNCHANGED <<netMode, message, dest, listenerPort, localAddr, acceptorVars, otherVars>>

\* After the write: local_addr gives the source, or "unknown" and 0 when it
\* fails; the Event is returned and the stream dropped, which closes the
\* connection.
NetReturn ==
  /\ UNCHANGED backlog
  /\ netPc = "written"
  /\ \E known \in BOOLEAN :
       netRet' = [tag |-> "Ok",
                  event |-> adapt_log_network(IF known THEN localAddr.ip ELSE "unknown",
                                              IF known THEN localAddr.port ELSE 0,
                                              dest.ip, dest.port, bytes_sent)]
  /\ stream' = "closed"
  /\ netPc' = "returned"
  /\ UNCHANGED <<netMode, message, dest, listenerPort, localAddr, inflight, bytes_sent,
                 acceptorVars, otherVars>>

\* The acceptor thread starts running server_listen and waits in
\* listener.incoming().
AcceptorStart ==
  /\ UNCHANGED backlog
  /\ accPc = "spawned"
  /\ accPc' = "listening"
  /\ UNCHANGED <<senderVars, data, recvRet, acceptErrs, readFailed, otherVars>>

\* listener.incoming() yields the connection the sender made.
AcceptorAccept ==
  /\ accPc = "listening"
  /\ backlog > 0
  /\ backlog' = backlog - 1
  /\ accPc' = "reading"
  /\ UNCHANGED <<senderVars, data, recvRet, acceptErrs, readFailed, otherVars>>

\* listener.incoming() yields an error: recv_data = None and the loop
\* goes on to the next connection.  The error may be that of a connection
\* that was waiting and is lost with it (it was aborted), or leave the
\* queue as it is.
AcceptorAcceptErr ==
  /\ accPc = "listening"
  /\ acceptErrs < MaxAcceptErrs
  /\ acceptErrs' = acceptErrs + 1
  /\ \/ backlog' = backlog
     \/ backlog > 0 /\ backlog' = backlog - 1
  /\ UNCHANGED <<senderVars, accPc, data, recvRet, readFailed, otherVars>>

\* read_to_end takes bytes that have arrived into its buffer.
AcceptorRead ==
  /\ UNCHANGED backlog
  /\ accPc = "reading"
  /\ inflight # <<>>
  /\ \E k \in 1..Len(inflight) :
       /\ data' = data \o SubSeq(inflight, 1, k)
       /\ inflight' = SubSeq(inflight, k + 1, Len(inflight))
  /\ UNCHANGED <<netMode, message, dest, netPc, listenerPort, stream, localAddr, bytes_sent,
                 netRet, accPc, recvRet, acceptErrs, readFailed, otherVars>>

\* read_to_end sees the end of the stream once the sender has closed it
\* and everything written was read: server_listen returns the buffer.
AcceptorEof ==
  /\ UNCHANGED backlog
  /\ accPc = "reading"
  /\ stream = "closed"
  /\ inflight = <<>>
  /\ recvRet' = data
  /\ accPc' = "done"
  /\ UNCHANGED <<senderVars, data, acceptErrs, readFailed, otherVars>>

\* read_to_end fails: recv_data = None and server_listen returns an empty
\* vector.
AcceptorReadErr ==
  /\ UNCHANGED backlog
  /\ accPc = "reading"
  /\ recvRet' = <<>>
  /\ readFailed' = TRUE
  /\ accPc' = "done"
  /\ UNCHANGED <<senderVars, data, acceptErrs, otherVars>>

\* A call of send_message on a host and port, or of send_loopback_message,
\* with some payload.
InitNet ==
  /\ InitCore
  /\ rows = <<>>
  /\ process_manager = "Some"
  /\ writer = "Ok"
  /\ fs = [p \in Paths |-> Absent]
  /\ fileLog = <<>>
  /\ message \in Payloads
  /\ \/ /\ netMode = "connect"
        /\ dest \in [ip : {"h"}, port : {0, 80}]
        /\ netPc = "send"
     \/ /\ netMode = "loopback"
        /\ dest = [ip |-> "", port |-> 0]
        /\ netPc = "start"
  /\ listenerPort = 0
  /\ stream = "none"
  /\ localAddr = [ip |-> "", port |-> 0]
  /\ inflight = <<>>
  /\ bytes_sent = 0
  /\ netRet = [tag |-> "none"]
  /\ accPc = "none"
  /\ data = <<>>
  /\ recvRet = <<>>
  /\ acceptErrs = 0
  /\ readFailed = FALSE
  /\ backlog = 0

NextNet ==
  \/ NetBind \/ NetSpawnThread \/ NetConnect \/ NetWrite \/ NetReturn
  \/ AcceptorStart \/ AcceptorAccept \/ AcceptorAcceptErr \/ AcceptorRead
  \/ AcceptorEof \/ AcceptorReadErr

SpecNet == InitNet /\ [][NextNet]_vars

\* Both threads are scheduled and the calls they make on a live loopback
\* connection return; the failures (an accept or a read that errs) are not
\* bound to happen.
SpecNetFair ==
  /\ SpecNet
  /\ WF_vars(NetSpawnThread) /\ WF_vars(NetConnect) /\ WF_vars(NetWrite)
  /\ WF_vars(NetReturn)
  /\ WF_vars(AcceptorStart) /\ WF_vars(AcceptorAccept) /\ WF_vars(AcceptorRead)
  /\ WF_vars(AcceptorEof)

\* ------------------------------------------------------- the file actor
\* Calls of new_file, mod_file and delete_file in any order, on files that
\* may be there before the first call.

FileStates ==
  {Absent, [exists |-> TRUE, data |-> <<>>], [exists |-> TRUE, data |-> <<0>>]}

\* One call on the file actor, as the log keeps it.
FileCall(op, path, c) ==
  [op |-> op, path |-> path, res |-> c.res, before |-> fs, after |-> c.fs]

fsOtherVars ==
  <<rows, pos, process_manager, errors_encountered, writer, sink, handed, status,
    panicCause, lastRet, eofCalls, reported, trace, pmVars, stopVars, netVars>>

FSNewFile ==
  /\ Len(fileLog) < MaxFileOps
  /\ \E path \in Paths :
       LET c == new_file(Cur, path) IN
       /\ fs' = c.fs
       /\ fileLog' = Append(fileLog, FileCall("new_file", path, c))
  /\ UNCHANGED fsOtherVars

FSModFile ==
  /\ Len(fileLog) < MaxFileOps
  /\ \E path \in Paths :
       LET c == mod_file(Cur, path) IN
       /\ fs' = c.fs
       /\ fileLog' = Append(fileLog, FileCall("mod_file", path, c))
  /\ UNCHANGED fsOtherVars

FSDeleteFile ==
  /\ Len(fileLog) < MaxFileOps
  /\ \E path \in Paths :
       LET c == delete_file(Cur, path) IN
       /\ fs' = c.fs
       /\ fileLog' = Append(fileLog, FileCall("delete_file", path, c))
  /\ UNCHANGED fsOtherVars

InitFS ==
  /\ InitCore
  /\ rows = <<>>
  /\ process_manager = "Some"
  /\ writer = "Ok"
  /\ NetIdle
  /\ fs \in [Paths -> FileStates]
  /\ fileLog = <<>>

NextFS == FSNewFile \/ FSModFile \/ FSDeleteFile

SpecFS == InitFS /\ [][NextFS]_vars

\* -------------------------------------------------------------- claims

RosterIds == {callRoster[i].id : i \in 1..Len(callRoster)}

StopAllOver == stopPc = "idle" /\ stopCalls > 0

\* C11: a stop_all call begun while every process of the roster was still
\* running, none of which exited by itself and each of which the kill
\* signal ended within the grace window, puts the whole roster in killed,
\* leaves premature and failures empty and returns the KillCount.
C11_AllRunningAllKilled ==
  (/\ StopAllOver
   /\ RosterIds \subseteq callLive
   /\ RosterIds \cap selfExits = {}
   /\ RosterIds \cap resisted = {}) =>
    /\ result.killed = callRoster
    /\ result.premature = <<>>
    /\ result.failures = <<>>
    /\ stopValue = [tag |-> "Ok", kc |-> result]

\* Three running processes, all killed by one stop_all.
C11_Witness ==
  /\ StopAllOver
  /\ Len(callRoster) = 3
  /\ RosterIds \subseteq callLive
  /\ selfExits = {}
  /\ resisted = {}
  /\ result.killed = callRoster

\* C12: the loop step for a record whose process was gone when stop_all
\* began sends no signal and appends the record to premature, leaving
\* killed and failures as they were.
C12_ExitedIsPremature ==
  [][(/\ stopPc = "loop"
      /\ stopIdx' = stopIdx + 1
      /\ processes[stopIdx].id \notin callLive) =>
       /\ signals' = signals
       /\ result'.premature = Append(result.premature, processes[stopIdx])
       /\ result'.killed = result.killed
       /\ result'.failures = result.failures]_vars

\* A call that found one process gone by itself and killed another.
C12_Witness ==
  /\ StopAllOver
  /\ Len(result.killed) >= 1
  /\ \E i \in 1..Len(result.premature) :
       /\ result.premature[i].id \in selfExits
       /\ result.premature[i].id \notin callLive
       /\ \A j \in 1..Len(signals) : signals[j] # result.premature[i].id

\* C13: stop_all returns the error exactly when killed and premature are
\* empty and failures is not; otherwise it returns the KillCount; and in
\* both cases the loop went over the whole roster.
C13_ErrIffOnlyFailures ==
  StopAllOver =>
    /\ stopValue.tag \in {"Ok", "Err"}
    /\ stopValue.tag = "Err" <=>
          (/\ result.killed = <<>> /\ result.premature = <<>> /\ result.failures # <<>>)
    /\ stopValue.tag = "Ok" => stopValue.kc = result
    /\ stopValue.tag = "Err" => stopValue.error.kind = "process"
    /\ Len(Buckets) = Len(callRoster)

\* Two resistant processes: the loop went past the first and the call
\* returned the error.
C13_Witness ==
  /\ StopAllOver
  /\ stopValue.tag = "Err"
  /\ Len(result.failures) = 2
  /\ Len(callRoster) = 2

\* C14 as stated: the error stop_all returns carries the failures entries.
C14_ErrorCarriesBuckets ==
  (StopAllOver /\ stopValue.tag = "Err") =>
    /\ "kc" \in DOMAIN stopValue
    /\ stopValue.kc.failures = result.failures

\* C14 as amended: when stop_all returns the error, failures holds every
\* record of the roster inside the call, but the value returned is only
\* the error of kind process with its message: the KillCount is not part
\* of it.
C14_ErrorDropsBuckets ==
  (StopAllOver /\ stopValue.tag = "Err") =>
    /\ result.failures = callRoster
    /\ DOMAIN stopValue = {"tag", "error"}
    /\ stopValue.error = [kind |-> "process", io_subkind |-> "None",
                          message |-> "All Child Processes Failed to Terminate"]

\* A call that returned the error for a roster of one resistant process.
C14_Witness ==
  /\ StopAllOver
  /\ stopValue.tag = "Err"
  /\ Len(callRoster) = 1
  /\ result.failures = callRoster

Released == status \in {"closed", "discarded", "panicked"}

\* C15 as stated: a commander released with a process manager has had
\* stop_all called on it explicitly.
C15_ExplicitStopBeforeRelease ==
  (Released /\ process_manager = "Some") =>
    \E i \in 1..Len(stopOrigins) : stopOrigins[i] = "explicit"

\* C15 as amended: the commander never calls stop_all; when it is released
\* (by get_num_errors, by being discarded or by a panic) holding a process
\* manager, stop_all is begun exactly once, by the manager's Drop.
C15_StopAllOnlyByDrop ==
  /\ \A i \in 1..Len(stopOrigins) : stopOrigins[i] = "drop"
  /\ Len(stopOrigins) = stopCalls
  /\ ~Released => stopCalls = 0
  /\ Released => stopCalls = (IF process_manager = "Some" THEN 1 ELSE 0)

\* A discarded commander whose Drop killed a spawned process.
C15_Witness ==
  /\ status = "discarded"
  /\ stopOrigins = <<"drop">>
  /\ stopPc = "idle"
  /\ Len(result.killed) >= 1

PortZeroEntries ==
  {i \in 1..Len(trace) :
     /\ trace[i].row.ok
     /\ Verb(trace[i].row) = "connect"
     /\ Len(trace[i].row.rec) >= 4
     /\ ParseU16(trace[i].row.rec[3]) = 0}

\* C16: a connect record whose port is 0 makes no connection attempt,
\* fails with a network error and counts exactly one error.
C16_PortZeroFailsWithoutConnecting ==
  \A i \in PortZeroEntries :
    /\ trace[i].actors = <<>>
    /\ trace[i].res = "network"
    /\ trace[i].errs = <<"network">>
    /\ trace[i].events = 0
    /\ trace[i].ret = "true" => trace[i].counted = 1

\* A connect record with port 0 was dispatched and read_next returned true.
C16_Witness ==
  \E i \in PortZeroEntries :
    /\ trace[i].row.rec = <<"connect", "h", "0", "m">>
    /\ trace[i].ret = "true"
    /\ trace[i].counted = 1

\* C17: an Event returned by send_message reports the whole payload as
\* sent, with everything of it written to the connection, the given host
\* and port as destination and, as source, the connection's local address
\* and port (or the "unknown" and 0 that stand for them when local_addr
\* fails).
C17_EventReportsFullPayload ==
  netRet.tag = "Ok" =>
    /\ netRet.event.bytes_sent = Len(message)
    /\ data \o inflight = message
    /\ netRet.event.dest_addr = dest.ip
    /\ netRet.event.dest_port = dest.port
    /\ <<netRet.event.source_addr, netRet.event.source_port>>
         \in {<<localAddr.ip, localAddr.port>>, <<"unknown", 0>>}

\* C18: after a loopback call that returned an Event, with the connection
\* accepted and read without an error, the acceptor yields the payload.
C18_LoopbackRoundTrip ==
  (/\ netMode = "loopback"
   /\ netRet.tag = "Ok"
   /\ accPc = "done"
   /\ ~readFailed
   /\ acceptErrs = 0) =>
    recvRet = message

CallsOf(op) == {i \in 1..Len(fileLog) : fileLog[i].op = op}

SinkRecords(t) == {i \in 1..Len(sink) : sink[i].t = t}

LoggingRecords == {i \in 1..Len(sink) : sink[i].t = "Error" /\ sink[i].what = "logging"}

\* C22 as stated: while the session has not been ended by a panic, every
\* event handed to the sink is in it.
C22_NoEventLostWhileRunning ==
  status # "panicked" => Cardinality(SinkRecords("Information")) = handed

\* C22 as amended: an error record that cannot be written ends the run by
\* a panic, after which no record is dispatched; an event that cannot be
\* written is replaced in the sink by a logging error record, which is
\* not counted, and the session goes on.
C22_SinkFailureEscalation ==
  /\ panicCause = "sink" => (status = "panicked" /\ trace[Len(trace)].ret = "panic")
  /\ \A i \in 1..Len(trace) : trace[i].ret = "panic" => i = Len(trace)
  /\ status # "panicked" =>
       /\ Cardinality(SinkRecords("Information")) + Cardinality(LoggingRecords) = handed
       /\ Cardinality(SinkRecords("Error")) = errors_encountered + Cardinality(LoggingRecords)
       /\ writer = "Err" => (sink = <<>> /\ handed = 0 /\ errors_encountered = 0)

\* An event was lost to a logging error record and the next record was
\* dispatched all the same.
C22_Witness ==
  /\ Len(trace) = 2
  /\ trace[1].events = 1
  /\ sink[1] = [t |-> "Error", what |-> "logging"]
  /\ trace[2].ret = "true"
  /\ status = "open"

ErrorKinds == {"input_format", "user_permissions", "io", "network", "process", "logging"}

\* C23: every error the commander reported and counted, and every error
\* record in the sink, has a kind of the closed set.
C23_ErrorKindsClosed ==
  /\ \A i \in 1..Len(trace) :
       \A k \in 1..Len(trace[i].errs) : trace[i].errs[k] \in ErrorKinds
  /\ \A i \in SinkRecords("Error") : sink[i].what \in ErrorKinds

PrematureIds == {result.premature[i].id : i \in 1..Len(result.premature)}

\* C24 as stated: a record classified premature belongs to a process that
\* was gone when the call began.
C24_PrematureOnlyIfGoneAtStart ==
  PrematureIds \cap callLive = {}

\* C24 as amended: a record classified premature belongs to a process
\* that was gone when the call began or that exited by itself after that,
\* before its turn; it is never one the call signalled.
C24_PrematureOnlyIfGoneBeforeTurn ==
  /\ [](PrematureIds \cap callLive \subseteq selfExits)
  /\ [][(stopPc = "loop" /\ stopIdx' = stopIdx + 1
          /\ result'.premature # result.premature) =>
           /\ processes[stopIdx].id \notin live
           /\ signals' = signals]_vars

\* A call that killed its first record and found the second, running when
\* the call began, gone by itself at the refresh after the grace window.
C24_Witness ==
  /\ StopAllOver
  /\ stopCalls = 1
  /\ Len(callRoster) = 2
  /\ result.killed = <<callRoster[1]>>
  /\ result.premature = <<callRoster[2]>>
  /\ callRoster[2].id \in callLive \cap selfExits

\* The kill signals one loop step sent, all to the step's record.
StepSignals == Len(signals') - Len(signals)

\* C25 as stated: a loop step sends at most one kill signal.
C25_AtMostOneSignal ==
  [][(stopPc = "loop" /\ stopIdx' = stopIdx + 1) => StepSignals <= 1]_vars

\* C25 as amended: a loop step sends no signal for a premature record,
\* one for a record whose process is gone after the grace window (killed)
\* and two for a record whose process is still there (failures): the
\* second stop_process signals again.
C25_SignalsPerBucket ==
  [][(stopPc = "loop" /\ stopIdx' = stopIdx + 1) =>
       LET id == processes[stopIdx].id IN
       /\ signals' = signals \o [k \in 1..StepSignals |-> id]
       /\ result'.premature # result.premature => StepSignals = 0
       /\ result'.killed # result.killed => (StepSignals = 1 /\ id \notin live')
       /\ result'.failures # result.failures => (StepSignals = 2 /\ id \in live')]_vars

\* One record in each bucket, with none, one and two signals.
C25_Witness ==
  /\ StopAllOver
  /\ stopCalls = 1
  /\ Len(result.premature) = 1 /\ Len(result.killed) = 1 /\ Len(result.failures) = 1
  /\ Len(signals) = 3
  /\ \E i, j \in 1..3 : i # j /\ signals[i] = signals[j] /\ signals[i] = result.failures[1].id

\* C26: the drop of a process manager begins stop_all once; the call runs
\* to its end, and after it, whether it returned the KillCount or the
\* error, no stop_all is begun again.
C26_DropStopsOnceNoRetry ==
  /\ []((Released /\ process_manager = "Some") =>
          (stopCalls = 1 /\ stopOrigins = <<"drop">>))
  /\ [][(Released /\ stopPc = "idle") => UNCHANGED stopVars]_vars
  /\ (Released /\ process_manager = "Some") ~> (stopPc = "idle" /\ stopValue.tag # "none")

\* A drop whose stop_all returned the error.
C26_Witness ==
  /\ Released
  /\ stopPc = "idle"
  /\ stopValue.tag = "Err"
  /\ stopCalls = 1

\* C27: an acceptor that met an accept error or a read error finishes
\* with an empty byte sequence, and the call's result is the Event or the
\* error of its own send_message.
C27_AcceptorFailureYieldsEmpty ==
  /\ (accPc = "done" /\ (acceptErrs > 0 \/ readFailed)) => recvRet = <<>>
  /\ (netMode = "loopback" /\ netPc = "returned") => netRet.tag \in {"Ok", "Err"}

\* C28: in a loopback call whose send_message returned an Event the
\* acceptor finishes.
C28_AcceptorTerminates ==
  (netMode = "loopback" /\ netRet.tag = "Ok") ~> (accPc = "done")

\* C29: in a loopback call the connect is made to the port the bound
\* listener was given, after the acceptor thread was started, and it can
\* succeed or fail whether or not that thread has reached accept.
C29_ConnectTargetsBoundListener ==
  /\ [][(netMode = "loopback" /\ netPc = "send" /\ netPc' # "send") =>
          /\ listenerPort \in EphemeralPorts
          /\ dest = [ip |-> "127.0.0.1", port |-> listenerPort]
          /\ accPc \in {"spawned", "listening"}]_vars
  /\ []((netMode = "loopback" /\ netPc = "send") =>
          /\ ENABLED (NetConnect /\ stream' = "open")
          /\ ENABLED (NetConnect /\ netRet'.tag = "Err"))

\* A connection made before the acceptor thread reached accept.
C29_Witness ==
  /\ netMode = "loopback"
  /\ stream = "open"
  /\ accPc = "spawned"
  /\ dest.port = listenerPort

\* The stop_all begun last follows one that ran over the same roster and
\* killed every process of it.
FollowsAllKilled ==
  /\ stopCalls >= 2
  /\ prevCall.roster = callRoster
  /\ prevCall.result.killed = prevCall.roster

\* C30: stop_all never changes the roster; a stop_all that follows one
\* that killed every process of the same roster sends no signal, puts
\* every record in premature and returns the KillCount.
C30_SecondStopAllAllPremature ==
  /\ [][(stopPc = "loop" \/ stopPc' = "loop") => processes' = processes]_vars
  /\ [][(FollowsAllKilled /\ stopPc = "loop" /\ stopIdx' = stopIdx + 1) =>
          /\ signals' = signals
          /\ result'.premature = Append(result.premature, processes[stopIdx])]_vars
  /\ []((StopAllOver /\ FollowsAllKilled) =>
          /\ result = [killed |-> <<>>, premature |-> callRoster, failures |-> <<>>]
          /\ stopValue = [tag |-> "Ok", kc |-> result])

\* Two processes killed by a first stop_all and found premature by a
\* second, which sent no signal.
C30_Witness ==
  /\ StopAllOver
  /\ stopCalls = 2
  /\ Len(callRoster) = 2
  /\ prevCall.roster = callRoster
  /\ prevCall.result.killed = callRoster
  /\ result.premature = callRoster
  /\ Len(signals) = 2

====
